---- MODULE Spec2Model ----
(***************************************************************************)
(* Fiddle: a desktop application that simulates single-molecule FRET       *)
(* traces, previews them and exports them to ASCII files.                  *)
(*                                                                         *)
(* The module models                                                       *)
(*   - the main window (src/main/python/main.py): the widgets, the Inputs  *)
(*     object, the stored table self.traces, the handlers of the Refresh   *)
(*     and Export buttons, the progress bar;                               *)
(*   - the helpers of src/main/python/lib/utils.py;                        *)
(*   - the trace generator lib.algorithms.generate_traces, whose source is *)
(*     not part of src/: it is modelled from spec.md (sections 3 to 7).    *)
(*                                                                         *)
(* Numbers: probabilities, FRET efficiencies, noise levels and the other   *)
(* real-valued parameters are integers in hundredths (0.2 is 20).          *)
(* null_fret_value is the sentinel -1 the window passes. Python's None is  *)
(* the empty tuple and a present optional value v is <<v>>. A scalar       *)
(* parameter is <<v>> and a (lo, hi) tuple is <<lo, hi>>.                  *)
(* The intensity columns DD, DA, AA, E, S and fb are left out of a row     *)
(* except for one column, data, that stands for the values drawn by the    *)
(* generation call that made the row.                                      *)
(***************************************************************************)
EXTENDS Integers, Sequences, FiniteSets, TLC

VARIABLES
    ui,          \* the widgets' current values (self.ui)
    inputs,      \* the Inputs object (self.inputs)
    traces,      \* the stored table (self.traces): rows and row index
    files,       \* the files the button handler that ran last has written
    serial,      \* history: the parity of the number of generation calls
    last,        \* how the last button handler ended
    args,        \* the arguments of the last generation call
    pc,          \* where the generation call followed step by step is
    done,        \* rows (name, frame) of the traces completed so far
    cur,         \* the trace generated last, with its ground truth
    retries,     \* traces discarded so far by discard_unbleached
    progressbar, \* the ProgressBar of set_traces: None or value and maximum
    ncallbacks,  \* history: invocations of the progress callback so far
    result,      \* what the last generation call returned or raised
    rng,         \* per run: numpy's process-wide generator state
    printed,     \* per run: the seed values random_seed_mp printed
    seeded,      \* per run: the seed value of the last random_seed_mp
    table        \* per run: the values of the last generated table

vars == <<ui, inputs, traces, files, serial, last, args, pc, done,
          cur, retries, progressbar, ncallbacks, result, rng, printed,
          seeded, table>>

guiVars == <<ui, inputs, traces, files, serial, last>>
genVars == <<args, pc, done, cur, retries, progressbar, ncallbacks, result>>
seedVars == <<rng, printed, seeded, table>>

(***************************************************************************)
(* Bounds of the model.                                                    *)
(***************************************************************************)
MaxTraces == 2       \* largest value of the number-of-traces input
MaxLen == 3          \* largest value of the trace-length input
MaxLong == 6         \* the long calls make 50 + 1 .. 50 + MaxLong traces
RetryBudget == 2     \* traces a discard_unbleached call may discard
MaxSeed == 3         \* seed values 0 .. MaxSeed stand for the 2^32 seeds

None == <<>>
Some(v) == <<v>>

Min(a, b) == IF a <= b THEN a ELSE b

Range(s) == {s[k] : k \in 1..Len(s)}

(***************************************************************************)
(* lib/utils.py                                                            *)
(***************************************************************************)

\* A string of numbers is a sequence of number tokens (the separators carry
\* no information): ip is the integer part and fp the fractional part in
\* hundredths, None when the number is written without one ("1").
Num(ip, fp) == [ip |-> ip, fp |-> fp]

\* re.findall with one capturing group returns, per match, what the group
\* matched: the fractional part ".dd", or "" when the group did not take part.
findall_group(s) == [k \in 1..Len(s) |-> s[k].fp]

\* float("") raises ValueError; float(".dd") is 0.dd.
numstring_raises(s) == \E k \in 1..Len(s) : findall_group(s)[k] = None

numstring_to_ls(s) == [k \in 1..Len(s) |-> findall_group(s)[k][1]]

(***************************************************************************)
(* main.py: the widgets and values_from_gui                                *)
(***************************************************************************)

\* The label codes of plot_category.
cls ==
    [bleached |-> 0, aggregate |-> 1, noisy |-> 2, scramble |-> 3, state1 |-> 4]

\* The widgets as the .ui file sets them up; the .ui file is not in src/, so
\* the values are those of a plain two-state simulation.
DefaultUi ==
    [examplesComboBox |-> 1,
     inputNumberOfTraces |-> 1,
     inputTraceLength |-> 2,
     inputScrambleProbability |-> 0,
     inputAggregateProbability |-> 0,
     inputMaxAggregateSize |-> 2,
     checkBoxRandomState |-> FALSE,
     inputFretStateMeans |-> <<Num(0, Some(20)), Num(0, Some(80))>>,
     inputMaxRandomStates |-> 2,
     checkBoxDlifetime |-> TRUE,
     inputDonorMeanLifetime |-> 1,
     checkBoxALifetime |-> TRUE,
     inputAcceptorMeanLifetime |-> 1,
     inputBlinkingProbability |-> 0,
     checkBoxTransitionProbability |-> TRUE,
     inputTransitionProbabilityLo |-> 0,
     inputTransitionProbabilityHi |-> 0,
     checkBoxNoise |-> TRUE,
     inputNoiseLo |-> 10,
     inputNoiseHi |-> 10,
     checkBoxMismatch |-> TRUE,
     inputMismatchLo |-> 10,
     inputMismatchHi |-> 10,
     checkBoxBleedthrough |-> TRUE,
     inputBleedthroughLo |-> 10,
     inputBleedthroughHi |-> 10,
     checkBoxScaler |-> TRUE,
     inputScalerLo |-> 10,
     inputScalerHi |-> 10]

\* The Inputs object before values_from_gui has run: no attribute is set.
NoInputs ==
    [n_examples |-> None, n_traces |-> None, trace_len |-> None,
     scramble_prob |-> None, aggregate_prob |-> None,
     max_aggregate_size |-> None, fret_means |-> None,
     max_random_states |-> None, donor_lifetime |-> None,
     acceptor_lifetime |-> None, blinking_prob |-> None,
     transition_prob |-> None, noise |-> None, aa_mismatch |-> None,
     bleed_through |-> None, scaling_factor |-> None]

\* Faulty variant of scalar_or_range: a checked box gives the float of the Hi widget.
scalar_from_hi(checked, lo, hi) == IF checked THEN <<hi>> ELSE <<lo, hi>>

\* A checked box gives the float of the Lo widget, an unchecked one the
\* tuple (Lo, Hi).
scalar_or_range(checked, lo, hi) == IF checked THEN <<lo>> ELSE <<lo, hi>>

\* The attributes values_from_gui assigns before it reads the state means.
values_head(inp, u) ==
    [inp EXCEPT
        !.n_examples = u.examplesComboBox * u.examplesComboBox,
        !.n_traces = u.inputNumberOfTraces,
        !.trace_len = u.inputTraceLength,
        !.scramble_prob = u.inputScrambleProbability,
        !.aggregate_prob = u.inputAggregateProbability,
        !.max_aggregate_size = u.inputMaxAggregateSize]

values_raises(u) ==
    ~u.checkBoxRandomState /\ numstring_raises(u.inputFretStateMeans)

\* values_from_gui: the Inputs object afterwards. When numstring_to_ls raises,
\* the attributes assigned before it keep their new values and the others
\* their old ones.
values_from_gui(inp, u) ==
    IF values_raises(u) THEN values_head(inp, u)
    ELSE [values_head(inp, u) EXCEPT
        !.fret_means =
            IF u.checkBoxRandomState THEN [kind |-> "random"]
            ELSE [kind |-> "fixed",
                  ls |-> numstring_to_ls(u.inputFretStateMeans)],
        !.max_random_states = u.inputMaxRandomStates,
        !.donor_lifetime =
            IF u.checkBoxDlifetime THEN None
            ELSE Some(u.inputDonorMeanLifetime),
        !.acceptor_lifetime =
            IF u.checkBoxALifetime THEN None
            ELSE Some(u.inputAcceptorMeanLifetime),
        !.blinking_prob = u.inputBlinkingProbability,
        !.transition_prob =
            scalar_or_range(u.checkBoxTransitionProbability,
                            u.inputTransitionProbabilityLo,
                            u.inputTransitionProbabilityHi),
        !.noise =
            scalar_or_range(u.checkBoxNoise, u.inputNoiseLo, u.inputNoiseHi),
        !.aa_mismatch =
            scalar_or_range(u.checkBoxMismatch, u.inputMismatchLo,
                            u.inputMismatchHi),
        !.bleed_through =
            scalar_or_range(u.checkBoxBleedthrough, u.inputBleedthroughLo,
                            u.inputBleedthroughHi),
        !.scaling_factor =
            scalar_or_range(u.checkBoxScaler, u.inputScalerLo,
                            u.inputScalerHi)]

(***************************************************************************)
(* main.py: set_traces and the progress bar                                *)
(***************************************************************************)
progress_threshold == 50
update_freq == 5
null_fret_value == -1
min_state_diff == 20
acceptable_noise == 25

\* set_traces shows a progress bar only for more than 50 traces.
with_progressbar(n_traces) == n_traces > progress_threshold

\* Faulty variant of loop_len: one less, as for a loop counted from zero.
loop_len_minus_one(n_traces) == n_traces \div 5 - 1

\* loop_len is the float n_traces / update_freq; setMaximum takes an int and
\* the binding converts the float by truncation.
loop_len(n_traces) == n_traces \div update_freq

\* ProgressBar.__init__: setValue(0), setMinimum(0), setMaximum(loop_len),
\* show().
ProgressBar(len) ==
    [value |-> 0, minimum |-> 0, maximum |-> len, visible |-> TRUE]

\* ProgressBar.increment
increment(bar) == [bar EXCEPT !.value = bar.value + 1]

\* Faulty variant of set_traces_args: one trace more than asked for is requested.
set_traces_args_one_more(inp, n_traces) ==
    [n_traces |-> n_traces + 1,
     aa_mismatch |-> inp.aa_mismatch,
     state_means |-> inp.fret_means,
     random_k_states_max |-> inp.max_random_states,
     max_aggregate_size |-> inp.max_aggregate_size,
     aggregation_prob |-> inp.aggregate_prob,
     scramble_prob |-> inp.scramble_prob,
     trace_length |-> inp.trace_len,
     trans_prob |-> inp.transition_prob,
     blink_prob |-> inp.blinking_prob,
     bleed_through |-> inp.bleed_through,
     noise |-> inp.noise,
     D_lifetime |-> inp.donor_lifetime,
     A_lifetime |-> inp.acceptor_lifetime,
     au_scaling_factor |-> inp.scaling_factor,
     discard_unbleached |-> FALSE,
     null_fret_value |-> -1,
     min_state_diff |-> 20,
     acceptable_noise |-> 25,
     progressbar_callback |-> n_traces > 50,
     callback_every |-> IF n_traces > 50 THEN Some(5) ELSE None]

\* The keyword arguments set_traces passes to generate_traces.
set_traces_args(inp, n_traces) ==
    [n_traces |-> n_traces,
     aa_mismatch |-> inp.aa_mismatch,
     state_means |-> inp.fret_means,
     random_k_states_max |-> inp.max_random_states,
     max_aggregate_size |-> inp.max_aggregate_size,
     aggregation_prob |-> inp.aggregate_prob,
     scramble_prob |-> inp.scramble_prob,
     trace_length |-> inp.trace_len,
     trans_prob |-> inp.transition_prob,
     blink_prob |-> inp.blinking_prob,
     bleed_through |-> inp.bleed_through,
     noise |-> inp.noise,
     D_lifetime |-> inp.donor_lifetime,
     A_lifetime |-> inp.acceptor_lifetime,
     au_scaling_factor |-> inp.scaling_factor,
     discard_unbleached |-> FALSE,
     null_fret_value |-> null_fret_value,
     min_state_diff |-> min_state_diff,
     acceptable_noise |-> acceptable_noise,
     progressbar_callback |-> with_progressbar(n_traces),
     callback_every |->
        IF with_progressbar(n_traces) THEN Some(update_freq) ELSE None]

(***************************************************************************)
(* lib.algorithms.generate_traces, modelled from spec.md                   *)
(***************************************************************************)

\* The candidate state means of a random draw.
MeanGrid == {20, 30, 60}

IsRange(p) == Len(p) = 2

\* 4.1: low <= high for every scalar-or-range parameter.
range_ok(p) == IsRange(p) => p[1] <= p[2]

is_prob(x) == 0 <= x /\ x <= 100

lifetime_ok(t) == t = None \/ t[1] >= 0

\* 4.1 and 4.5: the parameter sets that pass the configuration check.
config_valid(a) ==
    /\ range_ok(a.trans_prob) /\ range_ok(a.noise) /\ range_ok(a.aa_mismatch)
    /\ range_ok(a.bleed_through) /\ range_ok(a.au_scaling_factor)
    /\ a.random_k_states_max >= 2
    /\ is_prob(a.aggregation_prob) /\ is_prob(a.scramble_prob)
    /\ is_prob(a.blink_prob)
    /\ lifetime_ok(a.D_lifetime) /\ lifetime_ok(a.A_lifetime)
    /\ (a.state_means.kind = "fixed" => a.state_means.ls # <<>>)
    /\ a.n_traces >= 0 /\ a.trace_length >= 1

\* 4.1: the values one trace may use for a scalar-or-range parameter: the
\* scalar itself, or any value of [lo, hi].
resolve(p) == IF IsRange(p) THEN p[1]..p[2] ELSE {p[1]}

\* The per-trace resolutions of the five scalar-or-range parameters.
resolutions(a) ==
    [trans_prob : resolve(a.trans_prob), noise : resolve(a.noise),
     aa_mismatch : resolve(a.aa_mismatch),
     bleed_through : resolve(a.bleed_through),
     au_scaling_factor : resolve(a.au_scaling_factor)]

\* Pairwise separation of a list of state means.
separated(m, d) ==
    \A j, k \in 1..Len(m) : j # k => (m[j] - m[k] >= d \/ m[k] - m[j] >= d)

\* A random draw of K state means, in ascending order.
mean_draws(K) ==
    {m \in [1..K -> MeanGrid] : \A j \in 1..K - 1 : m[j] < m[j + 1]}

\* Faulty variant of state_means_of: a random draw is used without the check.
state_means_unchecked(a) ==
    IF a.state_means.kind = "random"
    THEN UNION {[1..K -> {20, 30, 60}] : K \in 2..a.random_k_states_max}
    ELSE {a.state_means.ls}

\* 4.1: the state means one trace may use. A random draw is repeated until the
\* means are separated by min_state_diff; a fixed list is used as it is.
state_means_of(a) ==
    IF a.state_means.kind = "random"
    THEN {m \in UNION {mean_draws(K) : K \in 2..a.random_k_states_max} :
            separated(m, a.min_state_diff)}
    ELSE {a.state_means.ls}

\* 4.3: the structural category of one trace: aggregate is decided first,
\* scramble next.
categories(a) ==
    {c \in {"normal", "aggregate", "scramble"} :
        /\ c = "aggregate" => a.aggregation_prob > 0
        /\ c # "aggregate" => a.aggregation_prob < 100
        /\ c = "scramble" => a.scramble_prob > 0
        /\ c = "normal" => a.scramble_prob < 100}

\* 4.2: the hidden state paths: constant when the transition probability is 0.
state_paths(K, L, trans_prob) ==
    {p \in [1..L -> 1..K] : trans_prob = 0 => \A f \in 1..L : p[f] = p[1]}

\* 4.3: the bleach frame of one channel: none without a lifetime, otherwise a
\* frame of the window or none (the draw fell beyond the window).
bleach_draws(lifetime, L) ==
    IF lifetime = None THEN {None}
    ELSE {None} \cup {Some(f) : f \in 0..L - 1}

\* 4.3: the earlier of the two channel bleach times.
first_bleach(bD, bA) ==
    IF bD = None THEN bA
    ELSE IF bA = None THEN bD
    ELSE Some(Min(bD[1], bA[1]))

\* Faulty variant of is_bleached: the bleach frame itself is not bleached yet.
is_bleached_after(first, f) == first # None /\ f > first[1]

is_bleached(first, f) == first # None /\ f >= first[1]

\* Faulty variant of frame_label: noise overrides the structural category.
frame_label_noisy_first(a, cat, noise, first, state, f) ==
    IF first # None /\ f >= first[1] THEN 0
    ELSE IF noise > a.acceptable_noise THEN 2
    ELSE IF cat = "aggregate" THEN 1
    ELSE IF cat = "scramble" THEN 3
    ELSE 3 + state

\* 3, 4.3, 4.4: the label of frame f (0-based).
frame_label(a, cat, noise, first, state, f) ==
    IF is_bleached(first, f) THEN cls.bleached
    ELSE IF cat = "aggregate" THEN cls.aggregate
    ELSE IF cat = "scramble" THEN cls.scramble
    ELSE IF noise > a.acceptable_noise THEN cls.noisy
    ELSE cls.state1 + state - 1

\* 3, 4.2, 4.3: the ground truth of frame f.
frame_E_true(a, cat, first, mean, f) ==
    IF is_bleached(first, f) \/ cat = "scramble" THEN a.null_fret_value
    ELSE mean

\* 4.5: one generated trace.
single_trace(a, name, cat, means, res, path, bD, bA) ==
    LET first == first_bleach(bD, bA)
        L == a.trace_length
    IN  [name |-> name,
         category |-> cat,
         means |-> means,
         resolved |-> res,
         _bleaches_at |-> first,
         label |-> [f \in 1..L |->
                      frame_label(a, cat, res.noise, first, path[f], f - 1)],
         E_true |-> [f \in 1..L |->
                      frame_E_true(a, cat, first, means[path[f]], f - 1)]]

\* The traces generate_single_trace may produce for the trace called name.
single_traces(a, name) ==
    UNION {UNION {
        {single_trace(a, name, cat, means, res, path, bD, bA) :
            cat \in categories(a),
            path \in state_paths(Len(means), a.trace_length, res.trans_prob),
            bD \in bleach_draws(a.D_lifetime, a.trace_length),
            bA \in bleach_draws(a.A_lifetime, a.trace_length)} :
        res \in resolutions(a)} : means \in state_means_of(a)}

\* 4.5: the rows of one trace in the result table, frame ascending.
trace_rows(t, L, stamp) ==
    [f \in 1..L |->
        [name |-> t.name, frame |-> f - 1, _bleaches_at |-> t._bleaches_at,
         data |-> stamp]]

\* The names (trace identifiers) of a sequence of rows.
names_of(rows) == {rows[k].name : k \in 1..Len(rows)}

num_traces(rows) == Cardinality(names_of(rows))

\* 4.5: the progress callback is due when the number of completed traces is a
\* multiple of callback_every.
callback_due(a, completed) ==
    /\ a.progressbar_callback
    /\ a.callback_every # None
    /\ completed % a.callback_every[1] = 0

\* Faulty variant of discarded: no trace is ever discarded.
never_discarded(a, t) == FALSE

\* 4.5: a generated trace is discarded when discard_unbleached is set and the
\* trace never bleaches inside the window.
discarded(a, t) == a.discard_unbleached /\ t._bleaches_at = None

\* A pandas table: its rows and its row index. generate_traces returns the
\* rows numbered 0, 1, 2, ...
DataFrame(rows) == [rows |-> rows, index |-> [k \in 1..Len(rows) |-> k - 1]]

EmptyFrame == DataFrame(<<>>)

\* What a generation call hands back: the table, or the error it raised with
\* the number of traces produced before.
Returned(tbl) == [kind |-> "table", table |-> tbl, produced |-> num_traces(tbl.rows)]
Raised(error, produced) ==
    [kind |-> error, table |-> EmptyFrame, produced |-> produced]

(***************************************************************************)
(* main.py: the export                                                     *)
(***************************************************************************)

\* df.index = np.arange(0, len(df), 1) // int(inputTraceLength.value())
regroup_index(n_rows, width) == [k \in 1..n_rows |-> (k - 1) \div width]

\* The rows of one group of df.groupby(df.index), in table order.
group_rows(tbl, key) ==
    LET at == SelectSeq([k \in 1..Len(tbl.rows) |-> k],
                        LAMBDA k : tbl.index[k] = key)
    IN  [j \in 1..Len(at) |-> tbl.rows[at[j]]]

\* One file per group: trace_<idx>_<time>.txt with the rows of the group.
export_files(tbl) ==
    {[idx |-> key, rows |-> group_rows(tbl, key)] : key \in Range(tbl.index)}

(***************************************************************************)
(* generate_traces as one step: everything a call may hand back.           *)
(***************************************************************************)

\* The traces that are kept: all of them, or with discard_unbleached those
\* that bleach inside the window.
kept_traces(a, name) == {t \in single_traces(a, name) : ~discarded(a, t)}

\* The rows of the first n traces, trace-major and frame-minor.
RECURSIVE rows_of_first(_, _, _)
rows_of_first(a, n, stamp) ==
    IF n = 0 THEN {<<>>}
    ELSE {r \o trace_rows(t, a.trace_length, stamp) :
            r \in rows_of_first(a, n - 1, stamp),
            t \in kept_traces(a, n - 1)}

generate_traces(a, stamp) ==
    IF ~config_valid(a) THEN {Raised("ConfigurationError", 0)}
    ELSE {Returned(DataFrame(r)) : r \in rows_of_first(a, a.n_traces, stamp)}
         \cup
         IF \E t \in single_traces(a, 0) : discarded(a, t)
         THEN {Raised("GenerationError", k) : k \in 0..a.n_traces - 1}
         ELSE {}

(***************************************************************************)
(* The button handlers and the edits of the inputs. A handler runs to its  *)
(* end before the next event is taken, so each is one step.                *)
(***************************************************************************)

EditNumberOfTraces(n) ==
    /\ ui' = [ui EXCEPT !.inputNumberOfTraces = n]
    /\ UNCHANGED <<inputs, traces, files, serial, last>>
    /\ UNCHANGED genVars /\ UNCHANGED seedVars

EditTraceLength(l) ==
    /\ ui' = [ui EXCEPT !.inputTraceLength = l]
    /\ UNCHANGED <<inputs, traces, files, serial, last>>
    /\ UNCHANGED genVars /\ UNCHANGED seedVars

EditFretStateMeans(s) ==
    /\ ui' = [ui EXCEPT !.inputFretStateMeans = s]
    /\ UNCHANGED <<inputs, traces, files, serial, last>>
    /\ UNCHANGED genVars /\ UNCHANGED seedVars

\* The inputs after values_from_gui and the adjustment of n_traces that
\* refresh_plots makes.
refreshed_inputs(inp, u) ==
    LET v == values_from_gui(inp, u)
    IN  IF v.n_traces < v.n_examples
        THEN [v EXCEPT !.n_traces = v.n_examples]
        ELSE v

\* set_traces(n_traces): what the call of generate_traces with the stored
\* inputs may hand back. The progress bar of a long call is gone when
\* set_traces returns.
set_traces(n_traces, inp, stamp) ==
    generate_traces(set_traces_args(inp, n_traces), stamp)

\* refresh_plots: values_from_gui, set_traces(n_examples), then the examples
\* are drawn, which reads the table. When values_from_gui raises, the handler
\* ends there.
refresh_plots ==
    /\ IF values_raises(ui)
       THEN /\ inputs' = values_from_gui(inputs, ui)
            /\ last' = "raised"
            /\ UNCHANGED <<traces, serial>>
       ELSE /\ inputs' = refreshed_inputs(inputs, ui)
            /\ serial' = 1 - serial
            /\ \E out \in set_traces(inputs'.n_examples, inputs', serial') :
                 IF out.kind = "table"
                 THEN traces' = out.table /\ last' = "refresh"
                 ELSE UNCHANGED traces /\ last' = "raised"
    /\ files' = {}
    /\ UNCHANGED ui
    /\ UNCHANGED genVars /\ UNCHANGED seedVars

\* export_traces_to_ascii: set_traces(the number-of-traces input), the
\* directory dialog, the new index of the table and, when the dialog was
\* accepted, one file per index value.
export_traces_to_ascii(accept) ==
    /\ serial' = 1 - serial
    /\ \E out \in set_traces(ui.inputNumberOfTraces, inputs, serial') :
        IF out.kind = "table"
        THEN /\ traces' =
                  [rows |-> out.table.rows,
                   index |-> regroup_index(Len(out.table.rows),
                                           ui.inputTraceLength)]
             /\ files' = IF accept THEN export_files(traces') ELSE {}
             /\ last' = IF accept THEN "export" ELSE "cancel"
        ELSE UNCHANGED traces /\ files' = {} /\ last' = "raised"
    /\ UNCHANGED <<ui, inputs>>
    /\ UNCHANGED genVars /\ UNCHANGED seedVars

(***************************************************************************)
(* Spec: a session of the main window.                                     *)
(***************************************************************************)

\* The texts typed into the state-means input: "0.2, 0.8", "1" and the empty
\* text.
Texts == {<<Num(0, Some(20)), Num(0, Some(80))>>, <<Num(1, None)>>, <<>>}

NoSeeds ==
    /\ rng = None /\ printed = None /\ seeded = None /\ table = None

NoCall ==
    /\ args = None /\ result = None
    /\ pc = "idle" /\ done = <<>> /\ cur = None
    /\ retries = 0 /\ progressbar = None /\ ncallbacks = 0

\* MainWindow.__init__: the widgets hold their start values, values_from_gui
\* has run once and the stored table is empty.
Init ==
    /\ ui \in {[DefaultUi EXCEPT !.examplesComboBox = e,
                                 !.inputNumberOfTraces = n,
                                 !.inputTraceLength = l] :
                 e \in 1..2, n \in 1..MaxTraces, l \in 1..MaxLen}
    /\ inputs = values_from_gui(NoInputs, ui)
    /\ traces = EmptyFrame
    /\ files = {}
    /\ serial = 0
    /\ last = "init"
    /\ NoCall
    /\ NoSeeds

Next ==
    \/ \E n \in 1..MaxTraces : EditNumberOfTraces(n)
    \/ \E l \in 1..MaxLen : EditTraceLength(l)
    \/ \E s \in Texts : EditFretStateMeans(s)
    \/ refresh_plots
    \/ \E accept \in BOOLEAN : export_traces_to_ascii(accept)

Spec == Init /\ [][Next]_vars

(***************************************************************************)
(* GenSpec: one call of set_traces followed step by step, trace by trace,  *)
(* from a window whose widgets hold one of the settings below.             *)
(***************************************************************************)

\* Photophysical events in short traces: aggregation, scrambling, bleaching
\* of either channel and, unless plain, noise around acceptable_noise and
\* state transitions.
EventsUi ==
    {[DefaultUi EXCEPT !.inputNumberOfTraces = n,
                       !.inputAggregateProbability = ag,
                       !.inputScrambleProbability = sc,
                       !.checkBoxDlifetime = cd,
                       !.checkBoxALifetime = ca,
                       !.checkBoxNoise = plain,
                       !.inputNoiseLo = 25,
                       !.inputNoiseHi = 26,
                       !.checkBoxTransitionProbability = plain,
                       !.inputTransitionProbabilityHi = 1] :
        n \in 1..MaxTraces, ag \in {0, 50}, sc \in {0, 50},
        cd \in BOOLEAN, ca \in BOOLEAN, plain \in BOOLEAN}

\* Bleaching in one trace of every length, aggregated or not, with state
\* transitions.
BleachUi ==
    {[DefaultUi EXCEPT !.inputTraceLength = l,
                       !.inputAggregateProbability = ag,
                       !.inputScrambleProbability = sc,
                       !.checkBoxDlifetime = FALSE,
                       !.checkBoxTransitionProbability = FALSE,
                       !.inputTransitionProbabilityHi = 1] :
        l \in 1..MaxLen, ag \in {0, 100}, sc \in {0, 100}}

\* State means: random with 1 to 3 states at most, or typed: "0.2, 0.8",
\* "0.5 0.6", "0.3" and the empty text.
MeansUi ==
    {[DefaultUi EXCEPT !.inputNumberOfTraces = n,
                       !.inputTraceLength = l,
                       !.checkBoxRandomState = rnd,
                       !.inputMaxRandomStates = k,
                       !.inputFretStateMeans = s] :
        n \in 1..MaxTraces, l \in 1..MaxLen, rnd \in BOOLEAN, k \in 1..3,
        s \in {<<Num(0, Some(20)), Num(0, Some(80))>>,
               <<Num(0, Some(50)), Num(0, Some(60))>>,
               <<Num(0, Some(30))>>,
               <<>>}}

\* A scalar-or-range parameter is set to the scalar 10, to the range
\* (10, 11) or to the range (10, 9), whose lo is above its hi.
Forms == {<<TRUE, 10>>, <<FALSE, 11>>, <<FALSE, 9>>}

ParamsUi ==
    {[DefaultUi EXCEPT !.inputNumberOfTraces = n,
                       !.checkBoxTransitionProbability = f[1][1],
                       !.inputTransitionProbabilityLo = 10,
                       !.inputTransitionProbabilityHi = f[1][2],
                       !.checkBoxNoise = f[2][1],
                       !.inputNoiseHi = f[2][2],
                       !.checkBoxMismatch = f[3][1],
                       !.inputMismatchHi = f[3][2],
                       !.checkBoxBleedthrough = f[4][1],
                       !.inputBleedthroughHi = f[4][2],
                       !.checkBoxScaler = f[5][1],
                       !.inputScalerHi = f[5][2]] :
        n \in 1..MaxTraces, f \in [1..5 -> Forms]}

\* Long calls, which show the progress bar, of one frame per trace.
LongUi ==
    {[DefaultUi EXCEPT !.inputNumberOfTraces = n,
                       !.inputTraceLength = 1,
                       !.checkBoxDlifetime = cd] :
        n \in progress_threshold - 1..progress_threshold + MaxLong,
        cd \in BOOLEAN}

\* The calls followed: the widgets and the discard_unbleached argument. The
\* window passes False; True is the call of another caller, followed where
\* bleaching matters.
Calls ==
    {[ui |-> u, discard |-> FALSE] :
        u \in EventsUi \cup BleachUi \cup MeansUi \cup ParamsUi}
    \cup {[ui |-> u, discard |-> TRUE] : u \in EventsUi \cup BleachUi}
    \cup {[ui |-> u, discard |-> d] :
            u \in {v \in LongUi : v.checkBoxDlifetime}, d \in BOOLEAN}
    \cup {[ui |-> u, discard |-> TRUE] :
            u \in {v \in LongUi : ~v.checkBoxDlifetime}}

\* export_traces_to_ascii has called set_traces, which has made the progress
\* bar and calls generate_traces.
GenInit ==
    /\ \E c \in Calls :
        /\ ui = c.ui
        /\ inputs = values_from_gui(NoInputs, ui)
        /\ args = [set_traces_args(inputs, ui.inputNumberOfTraces)
                   EXCEPT !.discard_unbleached = c.discard]
    /\ last = "export"
    /\ progressbar =
          IF with_progressbar(args.n_traces)
          THEN Some(ProgressBar(loop_len(args.n_traces)))
          ELSE None
    /\ pc = "check"
    /\ done = <<>>
    /\ cur = None
    /\ retries = 0
    /\ ncallbacks = 0
    /\ result = None
    /\ traces = EmptyFrame
    /\ files = {}
    /\ serial = 1
    /\ NoSeeds

\* progressbar.close() at the end of set_traces.
close(bar) ==
    IF bar = None THEN None ELSE Some([bar[1] EXCEPT !.visible = FALSE])

\* generate_traces: the configuration check made before any sampling. The
\* error leaves set_traces at once: the progress bar is not closed.
CheckConfiguration ==
    /\ pc = "check"
    /\ IF config_valid(args)
       THEN pc' = "generate" /\ UNCHANGED result
       ELSE pc' = "raised" /\ result' = Some(Raised("ConfigurationError", 0))
    /\ UNCHANGED <<args, done, cur, retries, progressbar, ncallbacks>>
    /\ UNCHANGED guiVars /\ UNCHANGED seedVars

\* generate_traces: one more trace is generated. It is discarded when
\* discard_unbleached asks for it, which raises GenerationError once the retry
\* budget is used up; otherwise it is completed, and the callback is invoked
\* when it is due.
GenerateSingleTrace ==
    /\ pc = "generate"
    /\ num_traces(done) < args.n_traces
    /\ \E t \in single_traces(args, num_traces(done)) :
        /\ cur' = Some(t)
        /\ IF discarded(args, t)
           THEN /\ IF retries < RetryBudget
                   THEN /\ retries' = retries + 1
                        /\ UNCHANGED <<pc, result>>
                   ELSE /\ pc' = "raised"
                        /\ result' =
                            Some(Raised("GenerationError", num_traces(done)))
                        /\ UNCHANGED retries
                /\ UNCHANGED <<done, progressbar, ncallbacks>>
           ELSE /\ done' = done \o trace_rows(t, args.trace_length, serial)
                /\ IF callback_due(args, num_traces(done) + 1)
                   THEN /\ progressbar' = Some(increment(progressbar[1]))
                        /\ ncallbacks' = ncallbacks + 1
                   ELSE UNCHANGED <<progressbar, ncallbacks>>
                /\ UNCHANGED <<pc, result, retries>>
    /\ UNCHANGED args
    /\ UNCHANGED guiVars /\ UNCHANGED seedVars

\* generate_traces returns the table; set_traces stores it and closes the
\* progress bar.
ReturnTable ==
    /\ pc = "generate"
    /\ num_traces(done) = args.n_traces
    /\ result' = Some(Returned(DataFrame(done)))
    /\ traces' = DataFrame(done)
    /\ progressbar' = close(progressbar)
    /\ pc' = "returned"
    /\ UNCHANGED <<ui, inputs, files, serial, last>>
    /\ UNCHANGED <<args, done, cur, retries, ncallbacks>>
    /\ UNCHANGED seedVars

GenNext ==
    \/ CheckConfiguration
    \/ GenerateSingleTrace
    \/ ReturnTable

GenSpec == GenInit /\ [][GenNext]_vars

\* The call followed step by step hands back what the call taken as one step
\* may hand back.
StepwiseAgrees ==
    pc \in {"returned", "raised"} => result[1] \in generate_traces(args, serial)

(***************************************************************************)
(* SeedSpec: two runs of the program side by side. Each re-seeds numpy's   *)
(* process-wide generator with random_seed_mp and generates with the same  *)
(* parameters as the other.                                                *)
(***************************************************************************)

Runs == 1..2
Seeds == 0..MaxSeed

\* os.urandom(4): any seed value.
urandom == Seeds

\* random_seed_mp(verbose) in a run whose generator state, printed line and
\* installed seed are r, when os.urandom gave seed_val: np.random.seed(seed_val)
\* and, if verbose, the print of the value.
random_seed_mp(r, seed_val, verbose) ==
    [rng |-> seed_val,
     printed |-> IF verbose THEN Some(seed_val) ELSE r.printed,
     seeded |-> Some(seed_val)]

\* The generator state after one draw, and the values of count draws.
next_state(state) == (state + 1) % (MaxSeed + 1)

RECURSIVE draws(_, _)
draws(state, count) ==
    IF count = 0 THEN <<>>
    ELSE <<state>> \o draws(next_state(state), count - 1)

RECURSIVE advance(_, _)
advance(state, count) ==
    IF count = 0 THEN state ELSE advance(next_state(state), count - 1)

\* Two fresh processes: numpy has seeded each generator from the entropy of
\* the operating system, nothing is printed and no table is made. The window
\* is the window at start-up.
SeedInit ==
    /\ rng \in [Runs -> Seeds]
    /\ printed = [r \in Runs |-> None]
    /\ seeded = [r \in Runs |-> None]
    /\ table = [r \in Runs |-> None]
    /\ ui = DefaultUi
    /\ inputs = values_from_gui(NoInputs, ui)
    /\ traces = EmptyFrame
    /\ files = {}
    /\ serial = 0
    /\ last = "init"
    /\ NoCall

\* Both runs call random_seed_mp(verbose).
Reseed(verbose) ==
    \E e \in [Runs -> urandom] :
        LET after == [r \in Runs |->
                random_seed_mp([rng |-> rng[r], printed |-> printed[r],
                                seeded |-> seeded[r]], e[r], verbose)]
        IN  /\ rng' = [r \in Runs |-> after[r].rng]
            /\ printed' = [r \in Runs |-> after[r].printed]
            /\ seeded' = [r \in Runs |-> after[r].seeded]
            /\ table' = [r \in Runs |-> None]
            /\ UNCHANGED guiVars /\ UNCHANGED genVars

\* Both runs generate n_traces traces of the stored trace length with the
\* same parameters: the table holds the values each generator draws.
Generate(n_traces) ==
    LET count == n_traces * inputs.trace_len
    IN  /\ table' = [r \in Runs |-> Some(draws(rng[r], count))]
        /\ rng' = [r \in Runs |-> advance(rng[r], count)]
        /\ UNCHANGED <<printed, seeded>>
        /\ UNCHANGED guiVars /\ UNCHANGED genVars

SeedNext ==
    \/ \E verbose \in BOOLEAN : Reseed(verbose)
    \/ \E n \in 1..MaxTraces : Generate(n)

SeedSpec == SeedInit /\ [][SeedNext]_vars

(***************************************************************************)
(* UtilSpec: one call of a helper of lib/utils.py on one input. args holds *)
(* the helper's name and its input, result what the call returned or       *)
(* raised.                                                                 *)
(***************************************************************************)

MaxNums == 2         \* most numbers written in one string

\* The characters of a string are one-character strings.
DigitChars == <<"0", "1", "2", "3", "4", "5", "6", "7", "8", "9">>

\* \d
IsDigit(c) == c \in Range(DigitChars)

\* int(c) of a digit character.
DigitVal(c) == (CHOOSE k \in 1..10 : DigitChars[k] = c) - 1

\* str(n) of a natural number.
RECURSIVE str_of_nat(_)
str_of_nat(n) ==
    IF n < 10 THEN <<DigitChars[n + 1]>>
    ELSE str_of_nat(n \div 10) \o <<DigitChars[(n % 10) + 1]>>

\* A number as it is written: the integer part and, when the number has a
\* fractional part, the point and one or two decimals.
written(num) ==
    IF num.fp = None THEN str_of_nat(num.ip)
    ELSE str_of_nat(num.ip) \o <<".">> \o
         (IF num.fp[1] % 10 = 0
          THEN <<DigitChars[(num.fp[1] \div 10) + 1]>>
          ELSE <<DigitChars[(num.fp[1] \div 10) + 1],
                 DigitChars[(num.fp[1] % 10) + 1]>>)

\* The string of the numbers nums with the separator sep between them.
RECURSIVE joined(_, _)
joined(nums, sep) ==
    IF nums = <<>> THEN <<>>
    ELSE IF Len(nums) = 1 THEN written(nums[1])
    ELSE written(nums[1]) \o sep \o joined(Tail(nums), sep)

\* \d+ and \s* are greedy: the first index from i on that holds no digit,
\* and no white space.
RECURSIVE digits_end(_, _)
digits_end(str, i) ==
    IF i <= Len(str) /\ IsDigit(str[i]) THEN digits_end(str, i + 1) ELSE i

RECURSIVE spaces_end(_, _)
spaces_end(str, i) ==
    IF i <= Len(str) /\ str[i] = " " THEN spaces_end(str, i + 1) ELSE i

\* The match of \d+(\.\d+)?\s* that starts at the digit at index i: what the
\* group captured ("" when it did not take part) and where the match ends.
match_at(str, i) ==
    LET a == digits_end(str, i)
        grouped == /\ a + 1 <= Len(str)
                   /\ str[a] = "."
                   /\ IsDigit(str[a + 1])
        b == IF grouped THEN digits_end(str, a + 1) ELSE a
    IN  [group |-> IF grouped THEN SubSeq(str, a, b - 1) ELSE <<>>,
         end |-> spaces_end(str, b)]

\* re.findall(r'\d+(\.\d+)?\s*', s) from index i on: the pattern has one
\* group, so the list holds what the group captured in each match.
RECURSIVE re_findall(_, _)
re_findall(str, i) ==
    IF i > Len(str) THEN <<>>
    ELSE IF IsDigit(str[i])
         THEN <<match_at(str, i).group>>
              \o re_findall(str, match_at(str, i).end)
         ELSE re_findall(str, i + 1)

\* float(".d") and float(".dd") in hundredths.
float_of(group) ==
    IF Len(group) = 2 THEN 10 * DigitVal(group[2])
    ELSE 10 * DigitVal(group[2]) + DigitVal(group[3])

\* What a helper hands back: the value, or the error it raised.
Value(v) == [kind |-> "value", value |-> v]
Error(name) == [kind |-> name, value |-> None]

\* numstring_to_ls(s) on the text s.
numstring_to_ls_text(str) ==
    LET num_s == re_findall(str, 1)
    IN  IF \E k \in 1..Len(num_s) : num_s[k] = <<>>
        THEN Error("ValueError")
        ELSE Value([k \in 1..Len(num_s) |-> float_of(num_s[k])])

\* The numbers written: integers and numbers with a fractional part.
Numbers == {Num(ip, fp) : ip \in {0, 1, 12}, fp \in {None, Some(20), Some(5)}}

Separators == {<<",">>, <<" ">>, <<",", " ">>, <<" ", ";", " ">>}

RECURSIVE SeqsUpTo(_, _)
SeqsUpTo(S, n) ==
    IF n = 0 THEN {<<>>}
    ELSE SeqsUpTo(S, n - 1)
         \cup {Append(q, x) : q \in {r \in SeqsUpTo(S, n - 1) : Len(r) = n - 1},
                               x \in S}

(* count_adjacent_values *)

MaxArr == 4          \* most elements of a one-dimensional array

\* The values of an array: label codes.
ArrValues == 0..2

\* A numpy array: its number of dimensions and its elements, which are the
\* rows when there are two dimensions.
Array1(data) == [ndim |-> 1, data |-> data]
Array2(rows) == [ndim |-> 2, data |-> rows]

RECURSIVE flatten(_)
flatten(rows) == IF rows = <<>> THEN <<>> ELSE Head(rows) \o flatten(Tail(rows))

\* arr.ravel(): the elements in row-major order.
ravel(arr) == IF arr.ndim = 1 THEN arr.data ELSE flatten(arr.data)

\* arr[a : b] of a one-dimensional array, 0-based and clipped to the array.
slice(arr, a, b) == SubSeq(arr, a + 1, Min(b, Len(arr)))

\* The length of the run of elements equal to a[1] at the head of a.
RECURSIVE run_len(_, _)
run_len(a, i) ==
    IF i <= Len(a) /\ a[i] = a[1] THEN run_len(a, i + 1) ELSE i - 1

\* [(g, len(list(l))) for g, l in itertools.groupby(arr)]: a new group
\* starts whenever the value changes.
RECURSIVE groupby(_)
groupby(a) ==
    IF a = <<>> THEN <<>>
    ELSE <<<<a[1], run_len(a, 1)>>>>
         \o groupby(SubSeq(a, run_len(a, 1) + 1, Len(a)))

\* Faulty variant of segments_loop: the start index is taken after n has
\* moved on.
RECURSIVE segments_loop_late_idx(_, _, _, _, _)
segments_loop_late_idx(arr, same, n, starts, lengths) ==
    IF same = <<>> THEN <<starts, lengths>>
    ELSE segments_loop_late_idx(arr, Tail(same), n + same[1][2],
                  Append(starts, n + same[1][2]),
                  Append(lengths, Len(slice(arr, n, n + same[1][2]))))

\* The loop "for v, l in same": the lists after the groups left in same.
RECURSIVE segments_loop(_, _, _, _, _)
segments_loop(arr, same, n, starts, lengths) ==
    IF same = <<>> THEN <<starts, lengths>>
    ELSE LET l == same[1][2]
             _len == Len(slice(arr, n, n + l))
             _idx == n
         IN  segments_loop(arr, Tail(same), n + l,
                           Append(starts, _idx), Append(lengths, _len))

count_adjacent_values(arr) ==
    segments_loop(ravel(arr), groupby(ravel(arr)), 0, <<>>, <<>>)

\* The arrays: every one-dimensional array of at most MaxArr label codes and
\* the arrays of two rows
\* of one or two columns.
Arrays1 == {Array1(a) : a \in SeqsUpTo(ArrValues, MaxArr)}

Arrays2 ==
    UNION {{Array2(<<r1, r2>>) :
                r1 \in [1..w -> ArrValues], r2 \in [1..w -> ArrValues]} :
           w \in 1..2}

CountCalls(arrays) ==
    {[fn |-> "count_adjacent_values", nums |-> <<>>, arg |-> a] : a \in arrays}

(* min_none *)

MaxList == 3         \* most elements of a list given to min_none

\* The elements of a list: None or a frame number.
Elements == {None} \cup {Some(f) : f \in 0..MaxLen - 1}

\* x < y of Python 3: TypeError when an operand is None.
less_raises(x, y) == x = None \/ y = None

\* min(ls) from element i on, m being the smallest element so far: the next
\* element x replaces m when x < m.
RECURSIVE min_from(_, _, _)
min_from(ls, i, m) ==
    IF i > Len(ls) THEN Value(m)
    ELSE IF less_raises(ls[i], m) THEN Error("TypeError")
    ELSE min_from(ls, i + 1, IF ls[i][1] < m[1] THEN ls[i] ELSE m)

\* min(ls): ValueError for an empty list; a list of one element is returned
\* without a comparison.
builtin_min(ls) ==
    IF ls = <<>> THEN Error("ValueError") ELSE min_from(ls, 2, ls[1])

\* min_none(ls): the TypeError of min becomes None.
min_none(ls) ==
    IF builtin_min(ls).kind = "TypeError" THEN Value(None)
    ELSE builtin_min(ls)

MinNoneCalls ==
    {[fn |-> "min_none", nums |-> <<>>, arg |-> ls] :
        ls \in SeqsUpTo(Elements, MaxList)}

NumstringCalls ==
    {[fn |-> "numstring_to_ls", nums |-> nums, arg |-> joined(nums, sep)] :
        nums \in SeqsUpTo(Numbers, MaxNums), sep \in Separators}


\* The window at start-up; no generation call and no seeding.
UtilInit ==
    /\ \/ args \in NumstringCalls
       \/ args \in CountCalls(Arrays1)
       \/ args \in CountCalls(Arrays2)
       \/ args \in MinNoneCalls
    /\ pc = "call"
    /\ result = None
    /\ done = <<>> /\ cur = None /\ retries = 0
    /\ progressbar = None /\ ncallbacks = 0
    /\ ui = DefaultUi
    /\ inputs = values_from_gui(NoInputs, ui)
    /\ traces = EmptyFrame
    /\ files = {}
    /\ serial = 0
    /\ last = "init"
    /\ NoSeeds

\* The call ends: pc says whether it returned or raised.
Ends(out) ==
    /\ result' = Some(out)
    /\ pc' = IF out.kind = "value" THEN "returned" ELSE "raised"
    /\ UNCHANGED <<args, done, cur, retries, progressbar, ncallbacks>>
    /\ UNCHANGED guiVars /\ UNCHANGED seedVars

CallNumstringToLs ==
    /\ pc = "call" /\ args.fn = "numstring_to_ls"
    /\ Ends(numstring_to_ls_text(args.arg))

CallCountAdjacentValues ==
    /\ pc = "call" /\ args.fn = "count_adjacent_values"
    /\ Ends(Value(count_adjacent_values(args.arg)))

CallMinNone ==
    /\ pc = "call" /\ args.fn = "min_none"
    /\ Ends(min_none(args.arg))

UtilNext ==
    \/ CallNumstringToLs
    \/ CallCountAdjacentValues
    \/ CallMinNone

UtilSpec == UtilInit /\ [][UtilNext]_vars

\* The text and the number tokens of the session agree: what the pattern's
\* group captures in the text is the fractional part of each token, and the
\* text raises exactly when the tokens do.
TextAgrees ==
    (pc # "call" /\ args.fn = "numstring_to_ls") =>
        /\ Len(re_findall(args.arg, 1)) = Len(args.nums)
        /\ (result[1].kind = "ValueError") <=> numstring_raises(args.nums)
        /\ result[1].kind = "value" =>
              result[1].value = numstring_to_ls(args.nums)

(***************************************************************************)
(* The properties.                                                         *)
(***************************************************************************)

\* The widgets of the five scalar-or-range parameters: check box, Lo, Hi.
ParamWidgets(u) ==
    [trans_prob |-> <<u.checkBoxTransitionProbability,
                      u.inputTransitionProbabilityLo,
                      u.inputTransitionProbabilityHi>>,
     noise |-> <<u.checkBoxNoise, u.inputNoiseLo, u.inputNoiseHi>>,
     aa_mismatch |-> <<u.checkBoxMismatch, u.inputMismatchLo,
                       u.inputMismatchHi>>,
     bleed_through |-> <<u.checkBoxBleedthrough, u.inputBleedthroughLo,
                         u.inputBleedthroughHi>>,
     au_scaling_factor |-> <<u.checkBoxScaler, u.inputScalerLo,
                             u.inputScalerHi>>]

\* The frames of the rows of one trace, in table order.
frames_of(rows, name) ==
    LET own == SelectSeq(rows, LAMBDA r : r.name = name)
    IN  [k \in 1..Len(own) |-> own[k].frame]

\* C1: a call of generate_traces for N traces of L frames with valid
\* parameters returns a table of exactly N traces, each with the frames
\* 0 .. L-1 once each; N and L are the number-of-traces input and the stored
\* trace length, as set_traces passes them. A valid call that does not ask
\* to discard unbleached traces always returns.
C1_CountAndLength ==
    /\ pc = "returned" =>
          LET rows == result[1].table.rows
              N == ui.inputNumberOfTraces
              L == inputs.trace_len
          IN  /\ result[1].kind = "table"
              /\ num_traces(rows) = N
              /\ Len(rows) = N * L
              /\ \A name \in names_of(rows) :
                    frames_of(rows, name) = [f \in 1..L |-> f - 1]
    /\ (pc = "raised" /\ config_valid(args)) => args.discard_unbleached

C1_Witness ==
    /\ pc = "returned"
    /\ ui.inputNumberOfTraces = 2
    /\ inputs.trace_len = 3
    /\ Len(result[1].table.rows) = 6

\* C2: in every generated trace a frame labelled bleached has the null value
\* as its ground truth E_true, a bleached frame is followed by bleached
\* frames only, and every frame at or after _bleaches_at is labelled
\* bleached.
C2_BleachedIsNullAndFinal ==
    cur # None =>
        LET t == cur[1]
            L == Len(t.label)
        IN  /\ \A f \in 1..L :
                  t.label[f] = cls.bleached => t.E_true[f] = null_fret_value
            /\ \A f, g \in 1..L :
                  (f < g /\ t.label[f] = cls.bleached)
                      => t.label[g] = cls.bleached
            /\ t._bleaches_at # None =>
                  \A f \in 1..L :
                      f - 1 >= t._bleaches_at[1] => t.label[f] = cls.bleached

C2_Witness ==
    /\ cur # None
    /\ cur[1]._bleaches_at = Some(1)
    /\ Len(cur[1].label) = 3
    /\ cur[1].label[1] # cls.bleached
    /\ cur[1].label[2] = cls.bleached /\ cur[1].label[3] = cls.bleached
    /\ cur[1].E_true[1] # null_fret_value
    /\ cur[1].E_true[2] = null_fret_value

C5_ScalarOrRange ==
    LET w == ParamWidgets(ui)
        inverted == \E p \in DOMAIN w : ~w[p][1] /\ w[p][2] > w[p][3]
    IN  /\ cur # None =>
              \A p \in DOMAIN w :
                  /\ w[p][1] => cur[1].resolved[p] = w[p][2]
                  /\ ~w[p][1] =>
                        (w[p][2] <= cur[1].resolved[p]
                            /\ cur[1].resolved[p] <= w[p][3])
        /\ inverted =>
              /\ pc \in {"check", "raised"}
              /\ cur = None /\ done = <<>>
              /\ pc = "raised" => result[1].kind = "ConfigurationError"

C5_Witness ==
    /\ cur # None
    /\ ~ui.checkBoxNoise /\ ui.inputNoiseLo = 10 /\ ui.inputNoiseHi = 11
    /\ cur[1].resolved.noise = 11
    /\ ui.checkBoxMismatch /\ cur[1].resolved.aa_mismatch = 10
    /\ ~ui.checkBoxScaler /\ cur[1].resolved.au_scaling_factor = 10

C7_DiscardUnbleached ==
    (args.discard_unbleached /\ config_valid(args)) =>
        /\ \A k \in 1..Len(done) : done[k]._bleaches_at # None
        /\ retries <= RetryBudget
        /\ pc = "returned" =>
              /\ result[1].kind = "table"
              /\ num_traces(result[1].table.rows) = args.n_traces
              /\ \A k \in 1..Len(result[1].table.rows) :
                    result[1].table.rows[k]._bleaches_at # None
        /\ pc = "raised" =>
              /\ result[1].kind = "GenerationError"
              /\ result[1].produced = num_traces(done)
              /\ result[1].produced < args.n_traces
              /\ retries = RetryBudget

C7_Witness ==
    /\ args.discard_unbleached
    /\ pc = "raised"
    /\ result[1].kind = "GenerationError"
    /\ result[1].produced = 1
    /\ retries = RetryBudget

\* C8: the progress callback has been invoked once per update_freq completed
\* traces and at no other moment, floor(N / update_freq) times when the call
\* returns; the bar counts the invocations and never shows more than its
\* maximum; a call for at most 50 traces has no bar and no callback.
C8_ProgressCallback ==
    pc # "idle" =>
        LET N == ui.inputNumberOfTraces
        IN  /\ ncallbacks = IF N > 50 THEN num_traces(done) \div 5 ELSE 0
            /\ pc = "returned" => ncallbacks = IF N > 50 THEN N \div 5 ELSE 0
            /\ N <= 50 => progressbar = None
            /\ N > 50 =>
                  /\ progressbar # None
                  /\ progressbar[1].value = ncallbacks
                  /\ progressbar[1].value <= progressbar[1].maximum

C8_Witness ==
    /\ pc = "returned"
    /\ ui.inputNumberOfTraces = 56
    /\ ncallbacks = 11
    /\ progressbar[1].value = 11 /\ progressbar[1].maximum = 11

\* C9 as it is written: the preview and the export leave the stored table
\* as the generation call returned it, with its rows numbered 0, 1, 2, ...,
\* and all its rows come from one call, the last one.
C9_TableLeftAsReturned ==
    /\ traces = DataFrame(traces.rows)
    /\ \A k \in 1..Len(traces.rows) : traces.rows[k].data = serial

\* C10 as it is written: an export writes one file per trace of the table,
\* which holds exactly the rows of that trace, also when the trace-length
\* input was edited since the last Refresh.
C10_OneFilePerTrace ==
    last = "export" =>
        /\ Cardinality(files) = num_traces(traces.rows)
        /\ \A file \in files :
              \E name \in names_of(traces.rows) :
                  file.rows = SelectSeq(traces.rows, LAMBDA r : r.name = name)

\* The number a token writes, in hundredths.
number_written(num) == 100 * num.ip + (IF num.fp = None THEN 0 ELSE num.fp[1])

\* C11 as it is written: for a string of non-negative decimal numbers
\* between separators numstring_to_ls returns, without raising, the list of
\* the numbers written, in order.
C11_NumbersAsWritten ==
    (pc # "call" /\ args.fn = "numstring_to_ls") =>
        /\ result[1].kind = "value"
        /\ result[1].value =
              [k \in 1..Len(args.nums) |-> number_written(args.nums[k])]

RECURSIVE Sum(_)
Sum(q) == IF q = <<>> THEN 0 ELSE Head(q) + Sum(Tail(q))

\* C12: count_adjacent_values returns, for every array, two lists starts
\* and lengths of the same size (both empty for an empty array) that cut the
\* flattened array into its maximal runs of equal values: starts begins at
\* 0, each next start is the previous start plus its length, every length
\* is at least 1, the lengths add up to the number of elements, the values
\* inside a segment are equal and consecutive segments differ in value.
C12_MaximalRuns ==
    (pc # "call" /\ args.fn = "count_adjacent_values") =>
        LET arr == ravel(args.arg)
            starts == result[1].value[1]
            lengths == result[1].value[2]
            m == Len(starts)
        IN  /\ pc = "returned"
            /\ Len(lengths) = m
            /\ arr = <<>> => m = 0
            /\ arr # <<>> => (m >= 1 /\ starts[1] = 0)
            /\ \A i \in 1..m - 1 : starts[i + 1] = starts[i] + lengths[i]
            /\ \A i \in 1..m : lengths[i] >= 1
            /\ Sum(lengths) = Len(arr)
            /\ \A i \in 1..m :
                  \A j \in starts[i]..starts[i] + lengths[i] - 1 :
                      arr[j + 1] = arr[starts[i] + 1]
            /\ \A i \in 1..m - 1 :
                  arr[starts[i] + 1] # arr[starts[i + 1] + 1]

C12_Witness ==
    /\ pc = "returned"
    /\ args.fn = "count_adjacent_values"
    /\ args.arg = Array1(<<1, 1, 2, 1>>)
    /\ result[1].value = <<<<0, 2, 3>>, <<2, 1, 1>>>>

\* C13 as it is written: for a non-empty list of numbers and None min_none
\* returns None when every element is None and the smallest number of the
\* list otherwise.
C13_SmallestNumber ==
    (pc # "call" /\ args.fn = "min_none" /\ args.arg # <<>>) =>
        LET ls == args.arg
            numbers == {ls[k][1] : k \in {j \in 1..Len(ls) : ls[j] # None}}
        IN  /\ pc = "returned"
            /\ numbers = {} => result[1].value = None
            /\ numbers # {} =>
                  /\ result[1].value # None
                  /\ result[1].value[1] \in numbers
                  /\ \A x \in numbers : result[1].value[1] <= x

====
